---- MODULE Spec2Model ----
(***************************************************************************)
(* Quota-and-rate-limit gate of the summarization API (src/Main.py).       *)
(*                                                                         *)
(* Every HTTP request is handled by its own worker (FastAPI runs the sync  *)
(* dependency verify_api_key and the sync endpoint resumage in a thread    *)
(* pool), so the handlers of several requests interleave at every access   *)
(* to the shared users table and at every read of the wall clock.          *)
(*                                                                         *)
(* Time is counted in half seconds: OneSecond == 2 ticks.  date.today() is *)
(* the day the clock falls in.  The users table is the only shared state.  *)
(* A SELECT is a non-locking read of the committed row; the UPDATE of      *)
(* update_user_usage together with its commit is one atomic write of the   *)
(* row (the database serialises the writes of one row, and                 *)
(* requests_today=requests_today+1 is evaluated by the database on the     *)
(* row as it is when the write is applied).                                *)
(***************************************************************************)
EXTENDS Integers, Naturals, FiniteSets, Sequences, TLC

\* ------------------------------------------------------------ bounds
NumReqs == 2          \* worker slots handling requests concurrently
MaxElapsed == 2       \* ticks the clock may advance in Spec
SeqElapsed == 41      \* ticks the clock may advance in SpecSeq

\* --------------------------------------------------------- constants
DAILY_LIMIT == 20     \* quota gratuit
OneSecond == 2        \* the "< 1" of the rate limit, in clock ticks
TicksPerDay == 24 * 60 * 60 * OneSecond
Midnight == 2 * TicksPerDay      \* a day boundary of the wall clock
None == -1            \* Python None / SQL NULL

Reqs == 1..NumReqs
Users == {1, 2}                  \* users.id of the provisioned rows
ApiKey == [id \in Users |-> IF id = 1 THEN "key1" ELSE "key2"]
MissingKey == "<missing>"        \* header absent: x_api_key is None
Keys == {MissingKey, "", "key1", "key2", "bad"}
UserKeys == {MissingKey, "", "key1", "bad"}   \* the keys one user may send
Plans == {"free", "pro"}

NoResp == [status |-> 0, detail |-> ""]
\* mutant of the exception: every rejection carries the same detail
HTTPExceptionGeneric(code, msg) == [status |-> code, detail |-> "Erreur"]
HTTPException(code, msg) == [status |-> code, detail |-> msg]
\* the detail strings of the HTTPExceptions, accents dropped
MissingMsg == "Cle API manquante"
InvalidMsg == "Cle API invalide"
RateMsg == "Trop de requetes, attendez 1 seconde."
QuotaMsg == "Quota journalier atteint. Passez au plan PRO."
SummaryOk == [status |-> 200, detail |-> "summary"]
SummaryFailed == [status |-> 500, detail |-> "Internal Server Error"]

NoRow == [id |-> None, plan |-> "", requests_today |-> 0,
          last_request_date |-> None, last_request_time |-> None]

VARIABLES
    clock,      \* time.time(), in ticks
    store,      \* the users table: id -> committed row
    pc,         \* per request: position of its handler
    key,        \* per request: the X-API-Key header
    user,       \* per request: the row fetched by get_user_from_db
    today,      \* per request: today of update_user_usage
    u,          \* per request: the row fetched by update_user_usage
    now_ts,     \* per request: now_ts of update_user_usage
    conns,      \* per request: store connections it holds open
    resp,       \* per request: the HTTP response, NoResp while in flight
    spaced,     \* history: the request arrived >= 1 s after the last accepted
    admitted,   \* history: per user, number of committed usage updates
    start,      \* history: the clock and rows at Init, the keys, the horizon
    rejected    \* history: per user, a 429 was answered since the last accepted

vars == <<clock, store, pc, key, user, today, u, now_ts, conns, resp,
          spaced, admitted, start, rejected>>

\* date.today()
Today(t) == t \div TicksPerDay

\* Python truthiness of a nullable number: None and 0 are false
Truthy(x) == x # None /\ x # 0

\* ----------------------------------------------------------- the store
Row(id) == [id |-> id, plan |-> store[id].plan,
            requests_today |-> store[id].requests_today,
            last_request_date |-> store[id].last_request_date,
            last_request_time |-> store[id].last_request_time]

\* mutant of the lookup: the WHERE clause is lost, any key fetches a row
SelectAnyRow(k) == Row(CHOOSE id \in Users : TRUE)

\* SELECT * FROM users WHERE api_key=%s ; fetchone()
SelectByKey(k) ==
    IF \E id \in Users : ApiKey[id] = k
    THEN Row(CHOOSE id \in Users : ApiKey[id] = k)
    ELSE NoRow

\* the lazy reset of verify_api_key, on the fetched row
EffectiveRequests(row, day) ==
    IF row.last_request_date # day THEN 0 ELSE row.requests_today

\* mutants of the quota test: the limit itself still passes; the plan is
\* not looked at
QuotaReachedStrict(row, day) ==
    row.plan = "free" /\ EffectiveRequests(row, day) > DAILY_LIMIT
QuotaReachedAnyPlan(row, day) ==
    EffectiveRequests(row, day) >= DAILY_LIMIT

\* verify_api_key's quota test
QuotaReached(row, day) ==
    row.plan = "free" /\ EffectiveRequests(row, day) >= DAILY_LIMIT

\* mutants of the rate test: a window of half a second; exactly one second
\* is still too soon
TooSoonHalf(lrt, now) == Truthy(lrt) /\ now - lrt < OneSecond - 1
TooSoonInclusive(lrt, now) == Truthy(lrt) /\ now - lrt <= OneSecond

\* update_user_usage's rate test
TooSoon(lrt, now) == Truthy(lrt) /\ now - lrt < OneSecond

\* mutants of the UPDATE statements: the reset counts on from the stored
\* counter; the increment leaves last_request_time as it is
ResetRowCountsOn(row, day, now) ==
    [row EXCEPT !.requests_today = row.requests_today + 1,
                !.last_request_date = day, !.last_request_time = now]
IncrementRowKeepsTime(row, now) ==
    [row EXCEPT !.requests_today = row.requests_today + 1]

\* the two UPDATE statements of update_user_usage, applied to a row
ResetRow(row, day, now) ==
    [row EXCEPT !.requests_today = 1, !.last_request_date = day,
                !.last_request_time = now]
IncrementRow(row, now) ==
    [row EXCEPT !.requests_today = row.requests_today + 1,
                !.last_request_time = now]

\* ---------------------------------------------------------------- Init
Fresh(p) == [plan |-> p, requests_today |-> 0,
             last_request_date |-> None, last_request_time |-> None]

\* rows a user can have at clock c: freshly provisioned, or last accepted
\* half a second ago with the counter dated today or (for a counter at the
\* limit) yesterday
UsedRows(c) ==
    { [plan |-> p, requests_today |-> n, last_request_date |-> d,
       last_request_time |-> c - 1] :
        p \in Plans, n \in {DAILY_LIMIT - 1, DAILY_LIMIT, 1000},
        d \in {Today(c) - 1, Today(c)} }
InitRows(c) ==
    { Fresh(p) : p \in Plans } \cup
    { r \in UsedRows(c) :
        /\ (r.requests_today = 1000) = (r.plan = "pro")
        /\ r.requests_today = DAILY_LIMIT - 1 => r.last_request_date = Today(c)
        /\ Today(r.last_request_time) >= r.last_request_date }

InitLocals ==
    /\ pc = [r \in Reqs |-> "idle"]
    /\ key = [r \in Reqs |-> MissingKey]
    /\ user = [r \in Reqs |-> NoRow]
    /\ today = [r \in Reqs |-> None]
    /\ u = [r \in Reqs |-> NoRow]
    /\ now_ts = [r \in Reqs |-> None]
    /\ conns = [r \in Reqs |-> 0]
    /\ resp = [r \in Reqs |-> NoResp]
    /\ spaced = [r \in Reqs |-> TRUE]
    /\ admitted = [id \in Users |-> 0]
    /\ rejected = [id \in Users |-> FALSE]

\* one second before midnight
Init ==
    /\ clock = Midnight - OneSecond
    /\ \E row \in InitRows(clock) :
          store = [id \in Users |-> IF id = 1 THEN row ELSE Fresh("free")]
    /\ InitLocals
    /\ start = [clock |-> clock, store |-> store, keys |-> UserKeys,
                horizon |-> clock + MaxElapsed]

\* two users' requests: user 1 fresh or one request short of the limit,
\* user 2 fresh
InitUsers ==
    /\ clock = Midnight + 2
    /\ \E row \in {r \in InitRows(clock) : r.requests_today < DAILY_LIMIT} :
          store = [id \in Users |-> IF id = 1 THEN row ELSE Fresh("free")]
    /\ InitLocals
    /\ start = [clock |-> clock, store |-> store,
                keys |-> {ApiKey[id] : id \in Users},
                horizon |-> clock + MaxElapsed]

InitSeq ==
    /\ clock = Midnight
    /\ store = [id \in Users |-> Fresh("free")]
    /\ InitLocals
    /\ start = [clock |-> clock, store |-> store, keys |-> {ApiKey[1]},
                horizon |-> clock + SeqElapsed]

\* ------------------------------------------------------------- actions
\* time passes
Tick ==
    /\ clock < start.horizon
    /\ clock' = clock + 1
    /\ UNCHANGED <<store, pc, key, user, today, u, now_ts, conns, resp,
                   spaced, admitted, start, rejected>>

\* raise HTTPException: the handler ends, its locals are gone
Raise(r, code, msg) ==
    /\ resp' = [resp EXCEPT ![r] = HTTPException(code, msg)]
    /\ pc' = [pc EXCEPT ![r] = "done"]
    /\ key' = [key EXCEPT ![r] = MissingKey]
    /\ user' = [user EXCEPT ![r] = NoRow]

\* the request arrived at least one second after the last accepted request
\* of the user its key names
Spaced(k) ==
    LET row == SelectByKey(k) IN
        \/ row.last_request_time = None
        \/ clock - row.last_request_time >= OneSecond

\* verify_api_key: the header of the request the worker takes
Accept(r, k) ==
    /\ spaced' = [spaced EXCEPT ![r] = Spaced(k)]
    /\ IF k = MissingKey \/ k = ""
       THEN Raise(r, 401, MissingMsg)
       ELSE /\ key' = [key EXCEPT ![r] = k]
            /\ pc' = [pc EXCEPT ![r] = "get_user"]
            /\ resp' = [resp EXCEPT ![r] = NoResp]
            /\ user' = [user EXCEPT ![r] = NoRow]
    /\ UNCHANGED <<clock, store, today, u, now_ts, conns, admitted, start,
                   rejected>>

\* a request arrives and is given to the first idle worker
Receive(r, k) ==
    /\ pc[r] = "idle"
    /\ \A q \in Reqs : q < r => pc[q] # "idle"
    /\ Accept(r, k)

\* get_user_from_db: connect, SELECT, close, 401 when no row matches
GetUser(r) ==
    /\ pc[r] = "get_user"
    /\ LET row == SelectByKey(key[r]) IN
          IF row = NoRow
          THEN Raise(r, 401, InvalidMsg)
          ELSE /\ user' = [user EXCEPT ![r] = row]
               /\ pc' = [pc EXCEPT ![r] = "quota"]
               /\ key' = [key EXCEPT ![r] = MissingKey]
               /\ UNCHANGED resp
    /\ conns' = [conns EXCEPT ![r] = (conns[r] + 1) - 1]
    /\ UNCHANGED <<clock, store, today, u, now_ts, spaced, admitted, start,
                   rejected>>

\* verify_api_key: the quota test on the fetched row
CheckQuota(r) ==
    /\ pc[r] = "quota"
    /\ IF QuotaReached(user[r], Today(clock))
       THEN /\ Raise(r, 429, QuotaMsg)
            /\ rejected' = [rejected EXCEPT ![user[r].id] = TRUE]
       ELSE /\ pc' = [pc EXCEPT ![r] = "connect"]
            /\ user' = [user EXCEPT ![r] =
                           IF user[r].plan = "free"
                              /\ user[r].last_request_date # Today(clock)
                           THEN [user[r] EXCEPT !.requests_today = 0]
                           ELSE user[r]]
            /\ UNCHANGED <<resp, key, rejected>>
    /\ UNCHANGED <<clock, store, today, u, now_ts, conns, spaced, admitted,
                   start>>

\* update_user_usage: connect and read today
UsageConnect(r) ==
    /\ pc[r] = "connect"
    /\ conns' = [conns EXCEPT ![r] = conns[r] + 1]
    /\ today' = [today EXCEPT ![r] = Today(clock)]
    /\ pc' = [pc EXCEPT ![r] = "select"]
    /\ UNCHANGED <<clock, store, key, user, u, now_ts, resp, spaced,
                   admitted, start, rejected>>

\* update_user_usage: SELECT the usage columns of the caller's row
UsageSelect(r) ==
    /\ pc[r] = "select"
    /\ u' = [u EXCEPT ![r] = Row(user[r].id)]
    /\ pc' = [pc EXCEPT ![r] = "rate"]
    /\ UNCHANGED <<clock, store, key, user, today, now_ts, conns, resp,
                   spaced, admitted, start, rejected>>

\* update_user_usage returns or raises: its locals are gone
UsageLocalsGone(r) ==
    /\ today' = [today EXCEPT ![r] = None]
    /\ u' = [u EXCEPT ![r] = NoRow]
    /\ now_ts' = [now_ts EXCEPT ![r] = None]

\* mutant of the rate limit: a rejected request stamps last_request_time
UsageRateStamps(r) ==
    /\ pc[r] = "rate"
    /\ IF TooSoon(u[r].last_request_time, clock)
       THEN /\ conns' = [conns EXCEPT ![r] = conns[r] - 1]
            /\ Raise(r, 429, RateMsg)
            /\ UsageLocalsGone(r)
            /\ rejected' = [rejected EXCEPT ![user[r].id] = TRUE]
            /\ store' = [store EXCEPT
                            ![user[r].id].last_request_time = clock]
       ELSE /\ now_ts' = [now_ts EXCEPT ![r] = clock]
            /\ pc' = [pc EXCEPT ![r] = "update"]
            /\ UNCHANGED <<conns, resp, key, user, today, u, rejected,
                           store>>
    /\ UNCHANGED <<clock, spaced, admitted, start>>

\* mutant of the rate limit: the rejection path forgets conn.close()
UsageRateLeaks(r) ==
    /\ pc[r] = "rate"
    /\ IF TooSoon(u[r].last_request_time, clock)
       THEN /\ Raise(r, 429, RateMsg)
            /\ UsageLocalsGone(r)
            /\ rejected' = [rejected EXCEPT ![user[r].id] = TRUE]
            /\ UNCHANGED conns
       ELSE /\ now_ts' = [now_ts EXCEPT ![r] = clock]
            /\ pc' = [pc EXCEPT ![r] = "update"]
            /\ UNCHANGED <<conns, resp, key, user, today, u,
                           rejected>>
    /\ UNCHANGED <<clock, store, spaced, admitted, start>>

\* update_user_usage: read the clock, the rate limit
UsageRate(r) ==
    /\ pc[r] = "rate"
    /\ IF TooSoon(u[r].last_request_time, clock)
       THEN /\ conns' = [conns EXCEPT ![r] = conns[r] - 1]
            /\ Raise(r, 429, RateMsg)
            /\ UsageLocalsGone(r)
            /\ rejected' = [rejected EXCEPT ![user[r].id] = TRUE]
       ELSE /\ now_ts' = [now_ts EXCEPT ![r] = clock]
            /\ pc' = [pc EXCEPT ![r] = "update"]
            /\ UNCHANGED <<conns, resp, key, user, today, u,
                           rejected>>
    /\ UNCHANGED <<clock, store, spaced, admitted, start>>

\* mutant of the UPDATE: the WHERE id=%s is lost, every row is written
UsageUpdateAllRows(r) ==
    /\ pc[r] = "update"
    /\ store' = [id \in Users |->
                    IF u[r].last_request_date # today[r]
                    THEN ResetRow(store[id], today[r], now_ts[r])
                    ELSE IncrementRow(store[id], now_ts[r])]
    /\ admitted' = [admitted EXCEPT ![user[r].id] = @ + 1]
    /\ rejected' = [rejected EXCEPT ![user[r].id] = FALSE]
    /\ conns' = [conns EXCEPT ![r] = conns[r] - 1]
    /\ UsageLocalsGone(r)
    /\ pc' = [pc EXCEPT ![r] = "summarize"]
    /\ UNCHANGED <<clock, key, user, resp, spaced, start>>

\* mutant of the UPDATE: a lock shared by all users, held until the
\* summarizer is back
UsageUpdateLocked(r) ==
    /\ pc[r] = "update"
    /\ \A q \in Reqs : pc[q] # "summarize"
    /\ LET id == user[r].id IN
          /\ store' = [store EXCEPT ![id] =
                          IF u[r].last_request_date # today[r]
                          THEN ResetRow(store[id], today[r], now_ts[r])
                          ELSE IncrementRow(store[id], now_ts[r])]
          /\ admitted' = [admitted EXCEPT ![id] = admitted[id] + 1]
          /\ rejected' = [rejected EXCEPT ![id] = FALSE]
    /\ conns' = [conns EXCEPT ![r] = conns[r] - 1]
    /\ UsageLocalsGone(r)
    /\ pc' = [pc EXCEPT ![r] = "summarize"]
    /\ UNCHANGED <<clock, key, user, resp, spaced, start>>

\* update_user_usage: the UPDATE, commit, close
UsageUpdate(r) ==
    /\ pc[r] = "update"
    /\ LET id == user[r].id IN
          /\ store' = [store EXCEPT ![id] =
                          IF u[r].last_request_date # today[r]
                          THEN ResetRow(store[id], today[r], now_ts[r])
                          ELSE IncrementRow(store[id], now_ts[r])]
          /\ admitted' = [admitted EXCEPT ![id] = admitted[id] + 1]
          /\ rejected' = [rejected EXCEPT ![id] = FALSE]
    /\ conns' = [conns EXCEPT ![r] = conns[r] - 1]
    /\ UsageLocalsGone(r)
    /\ pc' = [pc EXCEPT ![r] = "summarize"]
    /\ UNCHANGED <<clock, key, user, resp, spaced, start>>

\* mutant of the endpoint: a failed summarization gives the request back
SummarizeRollsBack(r, ok) ==
    /\ pc[r] = "summarize"
    /\ resp' = [resp EXCEPT ![r] = IF ok THEN SummaryOk ELSE SummaryFailed]
    /\ pc' = [pc EXCEPT ![r] = "done"]
    /\ store' = IF ok THEN store
                ELSE [store EXCEPT ![user[r].id].requests_today = @ - 1]
    /\ UNCHANGED <<clock, key, user, today, u, now_ts, conns,
                   spaced, admitted, start, rejected>>

\* resumage: the summarizer returns or raises
Summarize(r, ok) ==
    /\ pc[r] = "summarize"
    /\ resp' = [resp EXCEPT ![r] = IF ok THEN SummaryOk ELSE SummaryFailed]
    /\ pc' = [pc EXCEPT ![r] = "done"]
    /\ UNCHANGED <<clock, store, key, user, today, u, now_ts, conns,
                   spaced, admitted, start, rejected>>

Handle(r) ==
    \/ GetUser(r)
    \/ CheckQuota(r)
    \/ UsageConnect(r)
    \/ UsageSelect(r)
    \/ UsageRate(r)
    \/ UsageUpdate(r)
    \/ \E ok \in BOOLEAN : Summarize(r, ok)

\* requests handled concurrently, one per worker
Next ==
    \/ Tick
    \/ \E r \in Reqs, k \in start.keys : Receive(r, k)
    \/ \E r \in Reqs : Handle(r)

Spec == Init /\ [][Next]_vars

\* one user's requests, one after the other: the next request is sent when
\* the response to the previous one is back
ReceiveSeq ==
    /\ pc[1] \in {"idle", "done"}
    /\ Accept(1, ApiKey[1])

NextSeq ==
    \/ Tick
    \/ ReceiveSeq
    \/ Handle(1)

SpecSeq == InitSeq /\ [][NextSeq]_vars

\* requests of two users handled concurrently
SpecUsers == InitUsers /\ [][Next]_vars

\* ================================================================ claims
IsRateLimited(x) == x = [status |-> 429, detail |-> RateMsg]
IsQuotaExceeded(x) == x = [status |-> 429, detail |-> QuotaMsg]

\* the handler of request r takes a step
StepOf(r) == pc'[r] # pc[r]

\* no midnight has passed since the start
SameDay == Today(clock) = Today(start.clock)

\* requests_today of the start row as it counts on the start day
StartCount(id) ==
    IF start.store[id].last_request_date = Today(start.clock)
    THEN start.store[id].requests_today ELSE 0

\* only the UPDATE step of a handler writes the store
WritesOnlyInUpdate ==
    \A r \in Reqs : StepOf(r) /\ pc[r] # "update" => store' = store

\* C1: while less than one second has passed since the start (so all the
\* requests' timestamps are less than 1 s apart), at most one request of a
\* user has been admitted: two concurrent requests are never both admitted.
C1_OneAdmittedPerSecond ==
    \A id \in Users :
        clock - start.clock < OneSecond => admitted[id] <= 1

\* C2: as long as all requests fall on the start day, the stored
\* requests_today of a user with admitted requests equals the number of
\* requests admitted that day (those counted at the start plus those
\* admitted since): no increment is lost.
C2_CounterConsistent ==
    \A id \in Users :
        SameDay /\ admitted[id] > 0 =>
            store[id].requests_today = StartCount(id) + admitted[id]

\* C3: for a FREE user the number of requests admitted on one day, and the
\* requests_today stored for that day, never exceed DAILY_LIMIT.
C3_FreeWithinDailyLimit ==
    \A id \in Users :
        store[id].plan = "free" /\ SameDay =>
            /\ StartCount(id) + admitted[id] <= DAILY_LIMIT
            /\ store[id].last_request_date = Today(clock)
                  => store[id].requests_today <= DAILY_LIMIT

\* the row the handler decides on: the one verify_api_key fetched while it
\* tests the quota, the one update_user_usage fetched afterwards
DecidingRow(r) == IF pc[r] = "quota" THEN user[r] ELSE u[r]
Decides(r) ==
    \/ pc[r] = "quota" /\ pc'[r] = "done"
    \/ pc[r] = "rate" /\ StepOf(r)
InWindow(row) ==
    row.last_request_time # None /\ clock - row.last_request_time < OneSecond

C5_QuotaExceeded ==
    [][/\ \A r \in Reqs :
             /\ pc[r] = "quota" /\ StepOf(r)
             /\ user[r].plan = "free"
             /\ (IF user[r].last_request_date = Today(clock)
                 THEN user[r].requests_today ELSE 0) >= DAILY_LIMIT
             => /\ IsQuotaExceeded(resp'[r])
                /\ pc'[r] = "done"
                /\ store' = store
       /\ \A r \in Reqs :
             StepOf(r) /\ pc[r] \in {"idle", "get_user", "quota"}
                 => store' = store]_vars

\* C5 witness: a request of the FREE user whose counter was DAILY_LIMIT
\* today was rejected QuotaExceeded and the row is as it was at the start.
C5_Witness ==
    \E r \in Reqs :
        /\ IsQuotaExceeded(resp[r])
        /\ start.store[1].plan = "free"
        /\ start.store[1].requests_today = DAILY_LIMIT
        /\ start.store[1].last_request_date = Today(clock)
        /\ store = start.store

\* C6: every write of last_request_time stores a value >= the value it
\* replaces.
C6_LastRequestTimeMonotone ==
    [][\A id \in Users :
          store[id].last_request_time # None =>
              store'[id].last_request_time >= store[id].last_request_time]_vars

\* C7: from a fresh row, with the requests of one user handled one after
\* the other on one day, requests_today equals the number of accepted
\* requests, last_request_time is absent until the first one, and each
\* accepted request leaves its own timestamp in last_request_time.
C7_SequentialCount ==
    [][/\ SameDay' =>
             /\ store'[1].requests_today = admitted'[1]
             /\ admitted'[1] = 0 => store'[1].last_request_time = None
       /\ pc[1] = "update" /\ StepOf(1) =>
             /\ admitted'[1] = admitted[1] + 1
             /\ store'[1].last_request_time = now_ts[1]
       /\ ~(pc[1] = "update" /\ StepOf(1)) =>
             store'[1].last_request_time = store[1].last_request_time]_vars

\* C7 witness: DAILY_LIMIT requests were accepted one after the other and
\* the counter says so, the last one at the current clock.
C7_Witness ==
    /\ admitted[1] = DAILY_LIMIT
    /\ store[1].requests_today = DAILY_LIMIT
    /\ store[1].last_request_time = clock
    /\ pc[1] = "summarize"

\* C8: an accepted request whose row, as update_user_usage read it, has a
\* last_request_date other than today stores requests_today = 1,
\* last_request_date = today and last_request_time = now, whatever counter
\* is stored; and a FREE row dated another day never fails the quota test.
C8_DayRollover ==
    [][/\ \A r \in Reqs :
             pc[r] = "update" /\ StepOf(r)
             /\ u[r].last_request_date # today[r]
             => /\ store'[user[r].id].requests_today = 1
                /\ store'[user[r].id].last_request_date = today[r]
                /\ store'[user[r].id].last_request_time = now_ts[r]
       /\ \A r \in Reqs :
             pc[r] = "quota" /\ StepOf(r)
             /\ user[r].last_request_date # Today(clock)
             => pc'[r] = "connect" /\ resp'[r] = NoResp]_vars

\* C8 witness: the FREE user's last request was yesterday with
\* requests_today = DAILY_LIMIT; today's first request was accepted and the
\* counter is 1, dated today.
C8_Witness ==
    /\ start.store[1].plan = "free"
    /\ start.store[1].requests_today = DAILY_LIMIT
    /\ start.store[1].last_request_date = Today(clock) - 1
    /\ admitted[1] = 1
    /\ store[1].requests_today = 1
    /\ store[1].last_request_date = Today(clock)
    /\ \E r \in Reqs : resp[r] = SummaryOk

\* C9: a fresh FREE user's requests, one after the other on one day, each
\* arriving at least 1 s after the last accepted one: none is RateLimited,
\* one is rejected QuotaExceeded exactly when DAILY_LIMIT requests were
\* accepted before it, the others are accepted, and never more than
\* DAILY_LIMIT are accepted.
C9_TwentyThenQuota ==
    [][SameDay' /\ spaced[1] =>
          /\ pc[1] = "quota" /\ StepOf(1) =>
                /\ admitted[1] < DAILY_LIMIT => pc'[1] = "connect"
                /\ admitted[1] >= DAILY_LIMIT => IsQuotaExceeded(resp'[1])
          /\ pc[1] = "rate" /\ StepOf(1) => pc'[1] = "update"
          /\ pc[1] = "update" /\ StepOf(1) =>
                /\ admitted'[1] = admitted[1] + 1
                /\ pc'[1] = "summarize"
          /\ admitted'[1] <= DAILY_LIMIT]_vars

\* C9 witness: the 21st request, sent at least 1 s after the 20th accepted
\* one, was rejected QuotaExceeded.
C9_Witness ==
    /\ admitted[1] = DAILY_LIMIT
    /\ spaced[1]
    /\ IsQuotaExceeded(resp[1])

\* C10: a PRO request always passes the quota test, whatever requests_today
\* is stored; it is admitted whenever its rate test passes, and on admission
\* the stored counter is incremented (or set to 1 on a new day).
C10_ProNeverQuotaExceeded ==
    [][\A r \in Reqs : user[r].plan = "pro" /\ StepOf(r) =>
          /\ pc[r] = "quota" => pc'[r] = "connect" /\ resp'[r] = NoResp
          /\ pc[r] = "rate" /\ ~InWindow(u[r]) => pc'[r] = "update"
          /\ pc[r] = "update" =>
                /\ pc'[r] = "summarize"
                /\ store'[user[r].id].requests_today =
                      IF u[r].last_request_date = today[r]
                      THEN store[user[r].id].requests_today + 1 ELSE 1
          /\ ~IsQuotaExceeded(resp'[r])]_vars

\* C10 witness: the PRO user with requests_today = 1000 today was admitted
\* and the counter is 1001.
C10_Witness ==
    /\ store[1].plan = "pro"
    /\ start.store[1].requests_today = 1000
    /\ store[1].requests_today = 1001
    /\ \E r \in Reqs : pc[r] = "summarize"

IsUnauthenticated(x) ==
    x \in {[status |-> 401, detail |-> MissingMsg],
           [status |-> 401, detail |-> InvalidMsg]}

\* C12: a request whose key is missing or empty is rejected 401 when it is
\* received, one whose key matches no row is rejected 401 by the lookup;
\* a request with the key of a row passes both; a 401 is given nowhere
\* else, so before any quota or rate test; and these steps write no row.
C12_Unauthenticated ==
    [][\A r \in Reqs :
          /\ pc[r] = "idle" /\ StepOf(r) =>
                /\ store' = store
                /\ \/ resp'[r] = [status |-> 401, detail |-> MissingMsg]
                         /\ pc'[r] = "done"
                   \/ resp'[r] = NoResp /\ pc'[r] = "get_user"
                         /\ key'[r] \notin {MissingKey, ""}
          /\ pc[r] = "get_user" /\ StepOf(r) =>
                /\ store' = store
                /\ IF \E id \in Users : ApiKey[id] = key[r]
                   THEN resp'[r] = NoResp /\ pc'[r] = "quota"
                   ELSE resp'[r] = [status |-> 401, detail |-> InvalidMsg]
                        /\ pc'[r] = "done"
          /\ IsUnauthenticated(resp'[r]) /\ StepOf(r) =>
                pc[r] \in {"idle", "get_user"}]_vars

\* C12 witness: one request was rejected for a missing key and one for an
\* unknown key while the FREE user's row stands at the daily limit, and the
\* rows are as they were at the start.
C12_Witness ==
    \E r, q \in Reqs :
        /\ resp[r] = [status |-> 401, detail |-> MissingMsg]
        /\ resp[q] = [status |-> 401, detail |-> InvalidMsg]
        /\ store[1].plan = "free"
        /\ store[1].requests_today = DAILY_LIMIT
        /\ store = start.store

\* C13: the summarizer runs for a request only right after its usage
\* update was committed (the row written, the connection closed); a request
\* that was rejected never reaches it; and when it fails (or succeeds) the
\* rows stay as the update left them.
C13_SummarizeAfterCommit ==
    [][\A r \in Reqs :
          /\ pc'[r] = "summarize" /\ StepOf(r) =>
                /\ pc[r] = "update"
                /\ admitted'[user[r].id] = admitted[user[r].id] + 1
                /\ store'[user[r].id].last_request_time = now_ts[r]
                /\ conns'[r] = 0
                /\ resp'[r] = NoResp
          /\ pc[r] = "summarize" /\ StepOf(r) =>
                /\ resp'[r] \in {SummaryOk, SummaryFailed}
                /\ store' = store
                /\ admitted' = admitted
          /\ resp'[r] \in {SummaryOk, SummaryFailed} /\ StepOf(r) =>
                pc[r] = "summarize"]_vars

\* C13 witness: the summarizer failed for an admitted request and the row
\* still carries the request.
C13_Witness ==
    \E r \in Reqs :
        /\ resp[r] = SummaryFailed
        /\ admitted[1] = 1
        /\ start.store[1].requests_today = DAILY_LIMIT - 1
        /\ store[1].requests_today = DAILY_LIMIT

\* C14: a request that ends rejected carries 401 (the key test or the
\* lookup), 429 with the rate message (the rate test) or 429 with the quota
\* message (the quota test), the two messages differ, and nothing else is
\* ever answered but the summarizer's outcome.
C14_DistinctRejections ==
    /\ RateMsg # QuotaMsg
    /\ \A r \in Reqs :
          /\ pc[r] = "done" =>
                \/ IsUnauthenticated(resp[r])
                \/ IsRateLimited(resp[r])
                \/ IsQuotaExceeded(resp[r])
                \/ resp[r] \in {SummaryOk, SummaryFailed}
          /\ pc[r] # "done" => resp[r] = NoResp

\* C14 witness: one request ended 401 and another 429 RateLimited.
C14_Witness ==
    \E r, q \in Reqs :
        /\ IsUnauthenticated(resp[r])
        /\ IsRateLimited(resp[q])

\* C17: a handler holds a store connection only between the connect of
\* update_user_usage and its rate rejection or commit: none is open when
\* the request has ended, on any exit path, nor during the summarization.
C17_ConnectionsClosed ==
    \A r \in Reqs :
        conns[r] = IF pc[r] \in {"select", "rate", "update"} THEN 1 ELSE 0

\* C17 witness: a RateLimited request, which had opened a connection in
\* update_user_usage, has ended and holds none.
C17_Witness ==
    \E r \in Reqs :
        /\ pc[r] = "done"
        /\ IsRateLimited(resp[r])
        /\ conns[r] = 0

\* C18: with one user's requests handled one after the other, a request
\* that arrives at least 1 s after the last accepted one passes the rate
\* test, however many requests were rejected in between, because a request
\* answered 429 (RateLimited or QuotaExceeded) leaves last_request_time as
\* it is.
C18_RejectionsKeepWindow ==
    [][/\ spaced[1] /\ pc[1] = "rate" /\ StepOf(1) =>
             pc'[1] = "update" /\ resp'[1] = NoResp
       /\ resp'[1].status = 429 /\ StepOf(1) =>
             /\ store'[1].last_request_time = store[1].last_request_time
             /\ rejected'[1]
       /\ spaced'[1] => ~IsRateLimited(resp'[1])]_vars

\* C18 witness: after an accepted request and at least one rejected since,
\* a request that arrived at least 1 s after the accepted one passed the
\* rate test.
C18_Witness ==
    /\ admitted[1] >= 1
    /\ rejected[1]
    /\ spaced[1]
    /\ pc[1] = "update"

\* C15: the row a handler fetches is the row of the key it was sent, it
\* keeps that row's id while it runs, and a row of the store changes only
\* in the UPDATE step of a handler holding that row's id: the rows of all
\* other users are left as they are, whatever the outcome.
C15_Frame ==
    [][/\ \A r \in Reqs :
             /\ pc[r] = "get_user" /\ pc'[r] = "quota" =>
                   ApiKey[user'[r].id] = key[r]
             /\ pc[r] \in {"quota", "connect", "select", "rate", "update",
                           "summarize"}
                /\ ~(StepOf(r) /\ pc'[r] = "done" /\ resp'[r].status >= 400) =>
                   user'[r].id = user[r].id
       /\ \A id \in Users :
             store'[id] # store[id] =>
                 \E r \in Reqs : /\ pc[r] = "update" /\ StepOf(r)
                                 /\ user[r].id = id]_vars

\* C15 witness: a request of user 1 was admitted and one was rejected while
\* the row of user 2 is as it was at the start.
C15_Witness ==
    /\ admitted[1] = 1
    /\ store[1] # start.store[1]
    /\ \E r \in Reqs : IsRateLimited(resp[r])
    /\ store[2] = start.store[2]

\* the handler of request r is in flight
InFlight(r) == pc[r] \notin {"idle", "done"}

\* C16: the next step of every request in flight is enabled in every
\* reachable state, whatever the other requests are doing, and a request
\* in the summarization holds no store connection.
C16_NeverBlocked ==
    \A r \in Reqs :
        /\ InFlight(r) => ENABLED Handle(r)
        /\ pc[r] = "summarize" => conns[r] = 0

\* C16 witness: a request of user 2 is about to write its row while a
\* request of user 1 is inside the summarization.
C16_Witness ==
    \E r, q \in Reqs :
        /\ pc[r] = "summarize" /\ user[r].id = 1
        /\ pc[q] = "update" /\ user[q].id = 2

TypeOK ==
    /\ clock \in Nat
    /\ \A r \in Reqs : conns[r] \in {0, 1}
====
